---- MODULE Spec2Model ----
(***************************************************************************)
(* A model of manage.py, the maintenance script of the stop-words word     *)
(* lists: the language index (languages.json), the word-list files, and    *)
(* the sort / sort-all / merge commands built on merge_language_files.     *)
(*                                                                         *)
(* A text is a sequence of characters, each character a one-element        *)
(* string token.  A file on disk is a text; file.readlines() splits it     *)
(* after every line feed and file.writelines() concatenates what it is     *)
(* given, exactly as Python does.                                          *)
(***************************************************************************)
EXTENDS Integers, Sequences, FiniteSets, TLC

(***************************************************************************)
(* Bounds of the model.                                                    *)
(***************************************************************************)
\* Lines per generated initial word-list file.
MaxLines == 3
\* Paths on a merge command line.
MaxExtra == 2
\* Command-line invocations in one behaviour.
MaxRuns == 2

(***************************************************************************)
(* Characters.                                                             *)
(***************************************************************************)
\* The line feed that ends a line of a text file.
NL == "\n"
\* U+0301 COMBINING ACUTE ACCENT.
ACUTE == "U+0301"
\* U+00E9 LATIN SMALL LETTER E WITH ACUTE, the composed form of e + U+0301.
EACUTE == "U+00E9"
\* U+200C ZERO WIDTH NON-JOINER (the non-joiner of the comment in sort_word_list).
ZWNJ == "U+200C"

Char == {"a", "b", "e", ACUTE, EACUTE, ZWNJ, NL}

(***************************************************************************)
(* Text files: readlines and writelines.                                   *)
(***************************************************************************)
RECURSIVE SplitLines(_, _)
\* The lines of `text` after the partial line `cur`: a line ends after each
\* line feed, which it keeps; a last line without one is kept as it is.
SplitLines(text, cur) ==
  IF text = <<>>
    THEN IF cur = <<>> THEN <<>> ELSE <<cur>>
    ELSE IF Head(text) = NL
      THEN <<Append(cur, NL)>> \o SplitLines(Tail(text), <<>>)
      ELSE SplitLines(Tail(text), Append(cur, Head(text)))

\* file.readlines()
readlines(text) == SplitLines(text, <<>>)

RECURSIVE writelines(_)
\* file.writelines(words) on a freshly truncated file: the concatenation,
\* with no separator added.
writelines(words) ==
  IF words = <<>> THEN <<>> ELSE Head(words) \o writelines(Tail(words))

(***************************************************************************)
(* unicodedata.normalize('NFC', word) on this alphabet: the one canonical  *)
(* composition is e + U+0301 -> U+00E9.                                   *)
(***************************************************************************)
RECURSIVE NFC(_)
NFC(word) ==
  IF Len(word) < 2 THEN word
  ELSE IF word[1] = "e" /\ word[2] = ACUTE
    THEN <<EACUTE>> \o NFC(SubSeq(word, 3, Len(word)))
    ELSE <<word[1]>> \o NFC(Tail(word))

RECURSIVE NFD(_)
\* The canonical decomposition, which ICU compares at the identical level.
NFD(word) ==
  IF word = <<>> THEN <<>>
  ELSE IF Head(word) = EACUTE
    THEN <<"e", ACUTE>> \o NFD(Tail(word))
    ELSE <<Head(word)>> \o NFD(Tail(word))

(***************************************************************************)
(* ICU collation.  A sort key has a primary part (the base letters, with   *)
(* accents and the non-joiner ignored) and, at strength IDENTICAL, the     *)
(* code points of the decomposed string as the last level.                 *)
(***************************************************************************)
\* The Unicode code point of a character.
CodePoint(c) ==
  CASE c = NL -> 10
    [] c = "a" -> 97
    [] c = "b" -> 98
    [] c = "e" -> 101
    [] c = EACUTE -> 233
    [] c = ACUTE -> 769
    [] c = ZWNJ -> 8204

\* Characters with no primary weight.
Ignorable(c) == c \in {ACUTE, ZWNJ}

\* The primary weight of a character: white space before letters, an
\* accented letter as its base letter.
PrimaryWeight(c) ==
  CASE c = NL -> 1
    [] c = "a" -> 2
    [] c = "b" -> 3
    [] c \in {"e", EACUTE} -> 4

RECURSIVE Primary(_)
Primary(word) ==
  IF word = <<>> THEN <<>>
  ELSE IF Ignorable(Head(word)) THEN Primary(Tail(word))
  ELSE <<PrimaryWeight(Head(word))>> \o Primary(Tail(word))

RECURSIVE CodePoints(_)
CodePoints(word) ==
  IF word = <<>> THEN <<>> ELSE <<CodePoint(Head(word))>> \o CodePoints(Tail(word))

RECURSIVE LexLess(_, _)
\* Lexicographic order of two sequences of numbers (a proper prefix first).
LexLess(s, t) ==
  IF t = <<>> THEN FALSE
  ELSE IF s = <<>> THEN TRUE
  ELSE IF Head(s) # Head(t) THEN Head(s) < Head(t)
  ELSE LexLess(Tail(s), Tail(t))

\* A collator left at its default strength: the identical level is dropped,
\* so words that differ only in ignorable characters get the same key.
getSortKeyDefaultStrength(lang, word) == <<Primary(word), <<>>>>

\* collator.getSortKey(word) after collator.setStrength(icu.Collator.IDENTICAL).
getSortKey(lang, word) == <<Primary(word), CodePoints(NFD(word))>>

\* The byte order of two sort keys.
KeyLess(k1, k2) ==
  \/ LexLess(k1[1], k2[1])
  \/ k1[1] = k2[1] /\ LexLess(k1[2], k2[2])

RECURSIVE sorted(_, _)
\* sorted(words, key=collator.getSortKey) on a set of words.
sorted(lang, words) ==
  IF words = {} THEN <<>>
  ELSE LET least == CHOOSE w \in words :
                      \A v \in words : ~KeyLess(getSortKey(lang, v), getSortKey(lang, w))
       IN <<least>> \o sorted(lang, words \ {least})

(***************************************************************************)
(* Error messages of the script (LanguageDataError, SystemExit).           *)
(***************************************************************************)
OK == "ok"
E_UNRECOGNIZED == "Unrecognized language"
E_READ == "Could not read language file"
E_WRITE == "Could not open language file for writing"
E_INDEX_READ == "Could not read language index file"
E_INDEX_PARSE == "Could not parse the language index file"
E_INDEX_DICT == "Expected the language index file to be a JSON dictionary"
E_INDEX_ENTRY == "Expected the key to point to a valid language file"
E_PYICU == "PyICU is needed for proper unicode sorting"
E_LOCALE == "No ICU locale available for language"
E_ABORT == "Could not read path. Aborting."

(***************************************************************************)
(* State.                                                                  *)
(***************************************************************************)
VARIABLES
  disk,         \* the files under the root and the merge inputs: path -> text
  index_file,   \* languages.json: how it reads and, parsed, its items in order
  unreadable,   \* paths whose open() for reading raises OSError
  readonly,     \* paths whose open(path, 'w') raises OSError
  disk_full,    \* whether writelines() raises OSError before it is through
  icu,          \* whether `import icu` succeeds
  pc,           \* "idle", "running" (inside the with block) or "exited"
  argv,         \* the invocation under way or just ended
  lang_index,   \* the LanguageDataIndexPayload's path_mapping, in dict order
  pending,      \* the calls the invocation has still to make
  enter,        \* what LanguageDataIndex.__enter__ did in this invocation
  calls,        \* the calls made in this invocation, each with what it did
  result,       \* how the invocation ended: OK or the error message
  disk_before,  \* the disk when this invocation began
  prev,         \* the invocation before this one
  runs,         \* invocations begun so far
  argvs         \* the command lines and client calls that may be issued

vars == <<disk, index_file, unreadable, readonly, disk_full, icu, pc, argv,
          lang_index, pending, enter, calls, result, disk_before, prev, runs,
          argvs>>

\* pathlib's Path.exists() and a file's content.
exists(d, path) == path \in DOMAIN d
\* Whether open(path) for reading succeeds.
CanRead(d, path) == exists(d, path) /\ path \notin unreadable
\* icu.Locale.getAvailableLocales(): the locales of this model's ICU.
icu_locales == {"en", "en_GB", "fa"}

\* One file-system access: "stat" (exists), "open_r", "open_w", "write".
Access(op, path, ok) == [op |-> op, path |-> path, ok |-> ok]

Range(s) == {s[i] : i \in 1..Len(s)}

(***************************************************************************)
(* LanguageDataIndexPayload.                                               *)
(***************************************************************************)
\* `lang in self.path_mapping`
Registered(mapping, lang) == \E i \in 1..Len(mapping) : mapping[i].key = lang
\* self.path_mapping[lang]
Stem(mapping, lang) ==
  mapping[CHOOSE i \in 1..Len(mapping) : mapping[i].key = lang].value
\* root_path / f'{stem}.txt'
LanguageFile(stem) == stem \o ".txt"

\* The keys in the reverse of dict order.
get_lang_codes_reversed(mapping) ==
  [i \in 1..Len(mapping) |-> mapping[Len(mapping) + 1 - i].key]

\* get_lang_codes: the keys in dict order.
get_lang_codes(mapping) == [i \in 1..Len(mapping) |-> mapping[i].key]

\* get_path without its membership test: an unknown code falls through to
\* a path made from the code itself.
get_path_unchecked(mapping, lang) ==
  IF Registered(mapping, lang)
    THEN [err |-> OK, path |-> LanguageFile(Stem(mapping, lang))]
    ELSE [err |-> OK, path |-> LanguageFile(lang)]

\* get_path: raises for a code that is no key of the mapping.
get_path(mapping, lang) ==
  IF ~Registered(mapping, lang)
    THEN [err |-> E_UNRECOGNIZED, path |-> ""]
    ELSE [err |-> OK, path |-> LanguageFile(Stem(mapping, lang))]

\* read_language_file: get_path's error passes through the `except OSError`.
read_language_file(mapping, lang, d) ==
  LET p == get_path(mapping, lang) IN
  IF p.err # OK THEN [err |-> p.err, lines |-> <<>>, io |-> <<>>]
  ELSE IF ~CanRead(d, p.path)
    THEN [err |-> E_READ, lines |-> <<>>, io |-> <<Access("open_r", p.path, FALSE)>>]
    ELSE [err |-> OK, lines |-> readlines(d[p.path]),
          io |-> <<Access("open_r", p.path, TRUE)>>]

\* How many of `words` writelines() gets to write: all of them, unless the
\* disk fills up first.
WritePoints(words) ==
  IF disk_full /\ words # <<>> THEN 0..(Len(words) - 1) ELSE {Len(words)}

\* write_to_language_file, writing `upto` of the words: open(path, 'w')
\* truncates the file, writelines() then appends the words one by one.
write_to_language_file(mapping, lang, words, upto, d) ==
  LET p == get_path(mapping, lang) IN
  IF p.err # OK THEN [err |-> p.err, io |-> <<>>, disk |-> d]
  ELSE IF p.path \in readonly
    THEN [err |-> E_WRITE, io |-> <<Access("open_w", p.path, FALSE)>>, disk |-> d]
    ELSE [err |-> IF upto = Len(words) THEN OK ELSE E_WRITE,
          io |-> <<Access("open_w", p.path, TRUE),
                   Access("write", p.path, upto = Len(words))>>,
          disk |-> [q \in DOMAIN d \cup {p.path} |->
                      IF q = p.path THEN writelines(SubSeq(words, 1, upto))
                      ELSE d[q]]]

(***************************************************************************)
(* LanguageDataIndex.__enter__.                                            *)
(***************************************************************************)
RECURSIVE ValidateEntries(_, _, _)
\* The loop over path_mapping.items(): the first entry whose value is no
\* string or whose file does not exist raises; `io` are the exists() calls.
ValidateEntries(items, d, io) ==
  IF items = <<>> THEN [err |-> OK, io |-> io]
  ELSE LET it == Head(items) IN
    IF ~it.isstr THEN [err |-> E_INDEX_ENTRY, io |-> io]
    ELSE IF ~exists(d, LanguageFile(it.value))
      THEN [err |-> E_INDEX_ENTRY,
            io |-> Append(io, Access("stat", LanguageFile(it.value), FALSE))]
      ELSE ValidateEntries(Tail(items), d,
                           Append(io, Access("stat", LanguageFile(it.value), TRUE)))

\* An __enter__ that checks no entry: a bad entry would show on first use.
EnterWithoutValidation(doc, d) ==
  IF doc.kind = "unreadable" THEN [err |-> E_INDEX_READ, mapping |-> <<>>, io |-> <<>>]
  ELSE IF doc.kind = "malformed" THEN [err |-> E_INDEX_PARSE, mapping |-> <<>>, io |-> <<>>]
  ELSE IF doc.kind # "dict" THEN [err |-> E_INDEX_DICT, mapping |-> <<>>, io |-> <<>>]
  ELSE [err |-> OK, mapping |-> doc.items, io |-> <<>>]

\* __enter__: read and parse languages.json, check that it is a dictionary,
\* check every entry, and only then return the payload.
Enter(doc, d) ==
  IF doc.kind = "unreadable" THEN [err |-> E_INDEX_READ, mapping |-> <<>>, io |-> <<>>]
  ELSE IF doc.kind = "malformed" THEN [err |-> E_INDEX_PARSE, mapping |-> <<>>, io |-> <<>>]
  ELSE IF doc.kind # "dict" THEN [err |-> E_INDEX_DICT, mapping |-> <<>>, io |-> <<>>]
  ELSE LET v == ValidateEntries(doc.items, d, <<>>) IN
    IF v.err # OK THEN [err |-> v.err, mapping |-> <<>>, io |-> v.io]
    ELSE [err |-> OK, mapping |-> doc.items, io |-> v.io]

(***************************************************************************)
(* sort_word_list and merge_language_files.                                *)
(***************************************************************************)
\* sort_word_list: needs PyICU and an ICU locale named like the language.
sort_word_list(lang, words) ==
  IF ~icu THEN [err |-> E_PYICU, words |-> <<>>]
  ELSE IF lang \notin icu_locales THEN [err |-> E_LOCALE, words |-> <<>>]
  ELSE [err |-> OK, words |-> sorted(lang, words)]

\* The set comprehension of line 119 and the add() of line 125.
Normalized(lines) == {NFC(lines[i]) : i \in 1..Len(lines)}

RECURSIVE ReadExtrasSkipping(_, _, _, _)
\* A loop that goes on to the next path when one cannot be opened.
ReadExtrasSkipping(paths, bag, io, d) ==
  IF paths = <<>> THEN [err |-> OK, failed_path |-> "", bag |-> bag, io |-> io]
  ELSE LET path == Head(paths) IN
    IF ~CanRead(d, path)
      THEN ReadExtrasSkipping(Tail(paths), bag,
                              Append(io, Access("open_r", path, FALSE)), d)
      ELSE ReadExtrasSkipping(Tail(paths), bag \cup Normalized(readlines(d[path])),
                              Append(io, Access("open_r", path, TRUE)), d)

RECURSIVE ReadExtras(_, _, _, _)
\* The loop over new_paths: each path is opened in turn and its lines are
\* added to the bag; the first that cannot be opened ends the program.
ReadExtras(paths, bag, io, d) ==
  IF paths = <<>> THEN [err |-> OK, failed_path |-> "", bag |-> bag, io |-> io]
  ELSE LET path == Head(paths) IN
    IF ~CanRead(d, path)
      THEN [err |-> E_ABORT, failed_path |-> path, bag |-> bag,
            io |-> Append(io, Access("open_r", path, FALSE))]
      ELSE ReadExtras(Tail(paths), bag \cup Normalized(readlines(d[path])),
                      Append(io, Access("open_r", path, TRUE)), d)

\* merge_language_files up to its last line: the reads and the sort.
MergeInputs(mapping, lang, new_paths, d) ==
  LET r == read_language_file(mapping, lang, d) IN
  IF r.err # OK
    THEN [err |-> r.err, failed_path |-> "", bag |-> {}, words |-> <<>>, io |-> r.io]
  ELSE LET x == ReadExtras(new_paths, Normalized(r.lines), r.io, d) IN
    IF x.err # OK
      THEN [err |-> x.err, failed_path |-> x.failed_path, bag |-> x.bag,
            words |-> <<>>, io |-> x.io]
    ELSE LET s == sort_word_list(lang, x.bag) IN
      [err |-> s.err, failed_path |-> "", bag |-> x.bag, words |-> s.words, io |-> x.io]

\* merge_language_files, with writelines() getting to write `upto` words.
merge_language_files(mapping, lang, new_paths, upto, d) ==
  LET m == MergeInputs(mapping, lang, new_paths, d) IN
  IF m.err # OK
    THEN [op |-> "merge", lang |-> lang, paths |-> new_paths, err |-> m.err,
          failed_path |-> m.failed_path, bag |-> m.bag, words |-> m.words,
          io |-> m.io, disk |-> d]
  ELSE LET w == write_to_language_file(mapping, lang, m.words, upto, d) IN
    [op |-> "merge", lang |-> lang, paths |-> new_paths, err |-> w.err,
     failed_path |-> "", bag |-> m.bag, words |-> m.words,
     io |-> m.io \o w.io, disk |-> w.disk]

(***************************************************************************)
(* Command lines and the calls they make.                                  *)
(***************************************************************************)
Argv(command, lang, rest) == [command |-> command, lang |-> lang, rest |-> rest]
NoArgv == Argv("none", "", <<>>)
Call(op, lang, paths) == [op |-> op, lang |-> lang, paths |-> paths]

\* The words the library client of the class docstring writes back.
new_words == << <<"a", NL>> >>

\* The match statement of cli(): the merge_language_files calls of a command.
Jobs(a, mapping) ==
  CASE a.command = "sort" -> <<Call("merge", a.lang, <<>>)>>
    [] a.command = "sort-all" ->
         [i \in 1..Len(mapping) |-> Call("merge", get_lang_codes(mapping)[i], <<>>)]
    [] a.command = "merge" -> <<Call("merge", a.lang, a.rest)>>
    [] OTHER -> <<>>

\* The content of the language file of `lang` on disk d, if it has one.
FileOf(mapping, lang, d) ==
  LET p == get_path(mapping, lang) IN
  IF p.err = OK /\ exists(d, p.path) THEN d[p.path] ELSE <<>>

\* What a call that is not a merge leaves in `calls`.
Done(op, lang, err, io) ==
  [op |-> op, lang |-> lang, paths |-> <<>>, err |-> err, failed_path |-> "",
   bag |-> {}, words |-> <<>>, io |-> io, before |-> <<>>, after |-> <<>>]

\* A merge_language_files outcome as `calls` keeps it, with the language
\* file as the call found it and as it left it.
Kept(mapping, m, d) ==
  [op |-> m.op, lang |-> m.lang, paths |-> m.paths, err |-> m.err,
   failed_path |-> m.failed_path, bag |-> m.bag, words |-> m.words, io |-> m.io,
   before |-> FileOf(mapping, m.lang, d), after |-> FileOf(mapping, m.lang, m.disk)]

Static == UNCHANGED <<index_file, unreadable, readonly, disk_full, icu, argvs>>

\* A new process: what every invocation resets.
Begin(a) ==
  /\ pc \in {"idle", "exited"}
  /\ runs < MaxRuns
  /\ runs' = runs + 1
  /\ argv' = a
  /\ disk_before' = disk
  /\ prev' = [argv |-> argv, disk_before |-> disk_before, result |-> result]

\* cli(): parse the command line; a command opens the index and, when that
\* raises, ends there; no command prints the usage.
Cli(a) ==
  /\ a.command \in {"sort", "sort-all", "merge", ""}
  /\ Begin(a)
  /\ calls' = <<>>
  /\ IF a.command = ""
       THEN /\ enter' = [err |-> OK, mapping |-> <<>>, io |-> <<>>]
            /\ lang_index' = <<>>
            /\ pending' = <<>>
            /\ pc' = "exited"
            /\ result' = "usage"
       ELSE LET e == Enter(index_file, disk) IN
            /\ enter' = e
            /\ lang_index' = e.mapping
            /\ pending' = IF e.err = OK THEN Jobs(a, e.mapping) ELSE <<>>
            /\ pc' = IF e.err = OK /\ Jobs(a, e.mapping) # <<>> THEN "running" ELSE "exited"
            /\ result' = e.err
  /\ UNCHANGED disk
  /\ Static

\* One merge_language_files call of the command under way.  An exception
\* ends the invocation: the calls still pending are never made.
StepMerge ==
  /\ pc = "running"
  /\ pending # <<>>
  /\ LET c == Head(pending) IN
     \E upto \in WritePoints(MergeInputs(lang_index, c.lang, c.paths, disk).words) :
       LET m == merge_language_files(lang_index, c.lang, c.paths, upto, disk) IN
       /\ disk' = m.disk
       /\ calls' = Append(calls, Kept(lang_index, m, disk))
       /\ pending' = Tail(pending)
       /\ result' = m.err
       /\ pc' = IF m.err = OK /\ Tail(pending) # <<>> THEN "running" ELSE "exited"
  /\ UNCHANGED <<argv, lang_index, enter, disk_before, prev, runs>>
  /\ Static

\* The usage of the class docstring: a client opens the index and calls one
\* method of the payload.
Client(a) ==
  /\ a.command \in {"get_path", "read_language_file", "write_to_language_file"}
  /\ Begin(a)
  /\ LET e == Enter(index_file, disk) IN
     /\ enter' = e
     /\ lang_index' = e.mapping
     /\ pending' = <<>>
     /\ pc' = "exited"
     /\ IF e.err # OK
          THEN /\ result' = e.err
               /\ calls' = <<>>
               /\ UNCHANGED disk
          ELSE CASE a.command = "get_path" ->
                      LET r == get_path(e.mapping, a.lang) IN
                      /\ result' = r.err
                      /\ calls' = <<Done(a.command, a.lang, r.err, <<>>)>>
                      /\ UNCHANGED disk
                 [] a.command = "read_language_file" ->
                      LET r == read_language_file(e.mapping, a.lang, disk) IN
                      /\ result' = r.err
                      /\ calls' = <<Done(a.command, a.lang, r.err, r.io)>>
                      /\ UNCHANGED disk
                 [] a.command = "write_to_language_file" ->
                      \E upto \in WritePoints(new_words) :
                        LET r == write_to_language_file(e.mapping, a.lang, new_words,
                                                        upto, disk) IN
                        /\ result' = r.err
                        /\ calls' = <<Done(a.command, a.lang, r.err, r.io)>>
                        /\ disk' = r.disk
  /\ Static

(***************************************************************************)
(* Initial states: what is on disk, how the environment fails, and which   *)
(* command lines may come.                                                 *)
(***************************************************************************)
Item(key, value) == [key |-> key, isstr |-> TRUE, value |-> value]
\* An entry whose JSON value is a number.
ItemNumber(key) == [key |-> key, isstr |-> FALSE, value |-> ""]
Index(kind, items) == [kind |-> kind, items |-> items]

IndexTwo == Index("dict", <<Item("fa", "persian"), Item("en", "english")>>)
IndexThree ==
  Index("dict", <<Item("en", "english"), Item("tlh", "klingon"), Item("fa", "persian")>>)
\* Two codes that share one word list.
IndexAlias ==
  Index("dict", <<Item("en", "english"), Item("tlh", "klingon"), Item("en_GB", "english")>>)
IndexAliasFirst ==
  Index("dict", <<Item("en", "english"), Item("en_GB", "english"), Item("tlh", "klingon")>>)
\* An index with an entry that is no string, and one whose file is missing.
IndexNumber == Index("dict", <<Item("en", "english"), ItemNumber("fa")>>)
IndexDangling == Index("dict", <<Item("en", "english"), Item("fa", "farsi")>>)
BadIndexes ==
  {Index("unreadable", <<>>), Index("malformed", <<>>), Index("list", <<>>),
   IndexNumber, IndexDangling}
GoodIndexes == {IndexTwo, IndexThree, IndexAlias, IndexAliasFirst}

RECURSIVE Text(_)
\* The text of a sequence of words, one per line, each line ended.
Text(ws) == IF ws = <<>> THEN <<>> ELSE Head(ws) \o <<NL>> \o Text(Tail(ws))
\* The same text with the last line feed missing.
Unterminated(text) == SubSeq(text, 1, Len(text) - 1)

\* Every text of up to n lines of the given words, the last line ended or not.
Contents(words, n) ==
  LET lists == UNION {[1..k -> words] : k \in 0..n}
  IN {Text(ws) : ws \in lists} \cup {Unterminated(Text(ws)) : ws \in lists \ {<<>>}}

Disk(english, persian, new1, new2) ==
  [path \in {"english.txt", "persian.txt", "klingon.txt", "new1.txt", "new2.txt"} |->
     CASE path = "english.txt" -> english
       [] path = "persian.txt" -> persian
       [] path = "klingon.txt" -> Text(<< <<"b">>, <<"a">> >>)
       [] path = "new1.txt" -> new1
       [] path = "new2.txt" -> new2]

\* The same disk without new2.txt.
Without(d, gone) == [path \in DOMAIN d \ {gone} |-> d[path]]

ExtraPaths == {"new1.txt", "new2.txt"}
\* The lists of at most MaxExtra paths a merge may be given.
Rests == UNION {[1..k -> ExtraPaths] : k \in 0..MaxExtra}

InitRun ==
  /\ pc = "idle"
  /\ argv = NoArgv
  /\ lang_index = <<>>
  /\ pending = <<>>
  /\ enter = [err |-> OK, mapping |-> <<>>, io |-> <<>>]
  /\ calls = <<>>
  /\ result = "none"
  /\ disk_before = disk
  /\ prev = [argv |-> NoArgv, disk_before |-> disk, result |-> "none"]
  /\ runs = 0

\* How the environment fails: which opens raise, whether the disk fills up
\* during a write, whether PyICU is installed.
Fault(u, ro, full, pyicu) ==
  [unreadable |-> u, readonly |-> ro, disk_full |-> full, icu |-> pyicu]
NoFault == Fault({}, {}, FALSE, TRUE)

World(d, idx, f, as) ==
  /\ disk = d
  /\ index_file = idx
  /\ unreadable = f.unreadable
  /\ readonly = f.readonly
  /\ disk_full = f.disk_full
  /\ icu = f.icu
  /\ argvs = as
  /\ InitRun

\* english.txt with its last line ended, and not.
PlainDisks ==
  {Disk(e, Text(<< <<"e">> >>), Text(<< <<"a">> >>), Text(<< <<"e", ACUTE>> >>)) :
     e \in {Text(<< <<"b">>, <<"a">> >>), Unterminated(Text(<< <<"b">>, <<"a">> >>))}}

(***************************************************************************)
(* Merges into a registered language, under every fault.                   *)
(***************************************************************************)
MergeFaults ==
  {NoFault,
   Fault({"new1.txt"}, {}, FALSE, TRUE),
   Fault({"new2.txt"}, {}, FALSE, TRUE),
   Fault({"new1.txt", "new2.txt"}, {}, FALSE, TRUE),
   Fault({"english.txt"}, {}, FALSE, TRUE),
   Fault({"english.txt", "new2.txt"}, {}, FALSE, TRUE),
   Fault({}, {"english.txt"}, FALSE, TRUE),
   Fault({}, {}, TRUE, TRUE),
   Fault({}, {}, FALSE, FALSE)}

MergeArgvs ==
  {Argv("merge", "en", r) : r \in Rests}
    \cup {Argv("merge", "tlh", <<"new1.txt">>), Argv("read_language_file", "en", <<>>)}

InitMerge ==
  \E d \in PlainDisks \cup {Without(dd, "new2.txt") : dd \in PlainDisks},
     f \in MergeFaults :
    World(d, IndexThree, f, MergeArgvs)

(***************************************************************************)
(* Operations on a code the index does not have.                           *)
(***************************************************************************)
UnknownArgvs ==
  {Argv(c, l, <<>>) : c \in {"sort", "get_path", "read_language_file",
                             "write_to_language_file"},
                      l \in {"en", "fa", "xx"}}
    \cup {Argv("merge", l, r) : l \in {"fa", "xx"}, r \in Rests}

InitUnknown ==
  \E d \in PlainDisks, idx \in GoodIndexes,
     f \in {NoFault, Fault({"new1.txt"}, {}, FALSE, TRUE), Fault({}, {}, FALSE, FALSE)} :
    World(d, idx, f, UnknownArgvs)

(***************************************************************************)
(* Loading the index, good and bad.                                        *)
(***************************************************************************)
IndexArgvs ==
  {Argv("sort", "en", <<>>), Argv("sort-all", "", <<>>), Argv("", "", <<>>),
   Argv("merge", "en", <<"new1.txt">>), Argv("read_language_file", "en", <<>>),
   Argv("write_to_language_file", "en", <<>>)}

InitIndex ==
  \E d \in PlainDisks, idx \in GoodIndexes \cup BadIndexes,
     f \in {NoFault, Fault({"english.txt"}, {}, FALSE, TRUE)} :
    World(d, idx, f, IndexArgvs)

(***************************************************************************)
(* sort-all, under every fault.                                            *)
(***************************************************************************)
SortAllFaults ==
  {NoFault,
   Fault({"english.txt"}, {}, FALSE, TRUE),
   Fault({"persian.txt"}, {}, FALSE, TRUE),
   Fault({}, {"english.txt"}, FALSE, TRUE),
   Fault({}, {"persian.txt"}, FALSE, TRUE),
   Fault({}, {}, TRUE, TRUE),
   Fault({}, {}, FALSE, FALSE)}

SortAllArgvs ==
  {Argv("sort-all", "", <<>>), Argv("sort", "en", <<>>), Argv("get_path", "fa", <<>>)}

InitSortAll ==
  \E e \in Contents({<<"b">>, <<"a">>}, MaxLines - 1) \ {<<>>},
     idx \in GoodIndexes, f \in SortAllFaults :
    /\ idx \in {IndexAlias, IndexAliasFirst} => f \in {NoFault, Fault({}, {}, FALSE, FALSE)}
    /\ World(Disk(e, Text(<< <<"e", ACUTE>>, <<"a">> >>), <<>>, <<>>), idx, f, SortAllArgvs)

(***************************************************************************)
(* Words that differ only by the zero-width non-joiner.                    *)
(***************************************************************************)
JoinerWords ==
  {<<"a", "b">>, <<"a", ZWNJ, "b">>, <<"e", ACUTE>>, <<"e", ZWNJ, ACUTE>>}

JoinerArgvs ==
  {Argv("sort", "en", <<>>), Argv("merge", "en", <<"new1.txt">>),
   Argv("get_path", "en", <<>>)}

InitJoiner ==
  \E e \in Contents(JoinerWords, MaxLines),
     n \in {Text(<< <<"a", ZWNJ, "b">> >>), Unterminated(Text(<< <<"a", "b">> >>))} :
    World(Disk(e, <<>>, n, <<>>), IndexTwo, NoFault, JoinerArgvs)

(***************************************************************************)
(* Word lists of every shape, sorted and merged, once and again.           *)
(***************************************************************************)
TextWords == {<<"b">>, <<"b", "a">>, <<"b", "b", "a">>, <<"e", ACUTE>>}

TextArgvs ==
  {Argv("sort", "en", <<>>), Argv("get_path", "en", <<>>)}
    \cup {Argv("merge", "en", r) : r \in Rests \ {<<>>}}

InitText ==
  \E e \in Contents(TextWords, MaxLines),
     n1 \in {Unterminated(Text(<< <<"b">> >>)), Text(<< <<EACUTE>>, <<"a">> >>)},
     n2 \in {Text(<< <<"b", "a">> >>), Text(<< <<"b">> >>)} :
    World(Disk(e, <<>>, n1, n2), IndexTwo, NoFault, TextArgvs)

Next ==
  \/ \E a \in argvs : Cli(a)
  \/ \E a \in argvs : Client(a)
  \/ StepMerge

SpecMerge == InitMerge /\ [][Next]_vars
SpecUnknown == InitUnknown /\ [][Next]_vars
SpecIndex == InitIndex /\ [][Next]_vars
SpecSortAll == InitSortAll /\ [][Next]_vars
SpecJoiner == InitJoiner /\ [][Next]_vars
SpecText == InitText /\ [][Next]_vars

(***************************************************************************)
(* Vocabulary of the properties.                                           *)
(***************************************************************************)
\* The invocation has ended and was one `merge` or `sort` command that got
\* as far as calling merge_language_files.
MergeEnded ==
  /\ pc = "exited"
  /\ argv.command \in {"merge", "sort"}
  /\ calls # <<>>

\* The word-list file of a registered code.
TargetOf(lang) == LanguageFile(Stem(lang_index, lang))

SomeUnreadable(paths, d) == \E i \in 1..Len(paths) : ~CanRead(d, paths[i])
\* The position of the first path that cannot be read.
FirstUnreadable(paths, d) ==
  CHOOSE i \in 1..Len(paths) :
    ~CanRead(d, paths[i]) /\ \A j \in 1..(i - 1) : CanRead(d, paths[j])

\* Whether the accesses `io` open `path` for writing or write to it.
Wrote(io, path) ==
  \E i \in 1..Len(io) : io[i].op \in {"open_w", "write"} /\ io[i].path = path

\* The accesses of a merge that reads its language file and then the paths
\* up to the k-th, which fails.
ReadsUpTo(target, paths, k) ==
  <<Access("open_r", target, TRUE)>>
    \o [i \in 1..k |-> Access("open_r", paths[i], i < k)]

(***************************************************************************)
(* C1.  Merge atomicity.                                                   *)
(***************************************************************************)
\* C1 as stated: a merge into a registered code that is given at least one
\* unreadable path aborts at the first such path in list order, leaves the
\* language file as it was and never writes to it.
C1_AbortsAtFirstUnreadablePath ==
  (MergeEnded /\ Registered(lang_index, calls[1].lang)
     /\ SomeUnreadable(calls[1].paths, disk_before))
  => LET c == calls[1]
         k == FirstUnreadable(c.paths, disk_before)
     IN /\ c.err = E_ABORT
        /\ c.failed_path = c.paths[k]
        /\ c.io = ReadsUpTo(TargetOf(c.lang), c.paths, k)
        /\ disk[TargetOf(c.lang)] = disk_before[TargetOf(c.lang)]
        /\ ~Wrote(c.io, TargetOf(c.lang))

\* C1 amended: the same, for a language file that can itself be read; when it
\* cannot, the merge ends on that read, before any path is opened.  Either
\* way the language file is as it was and is never written.
C1_MergeAtomicity ==
  (MergeEnded /\ Registered(lang_index, calls[1].lang)
     /\ SomeUnreadable(calls[1].paths, disk_before))
  => LET c == calls[1]
         k == FirstUnreadable(c.paths, disk_before)
         target == TargetOf(c.lang)
     IN /\ disk = disk_before
        /\ ~Wrote(c.io, target)
        /\ IF CanRead(disk_before, target)
             THEN /\ c.err = E_ABORT
                  /\ c.failed_path = c.paths[k]
                  /\ c.io = ReadsUpTo(target, c.paths, k)
             ELSE /\ c.err = E_READ
                  /\ c.io = <<Access("open_r", target, FALSE)>>

\* A merge of a readable path followed by an unreadable one has aborted.
C1_Witness ==
  /\ MergeEnded
  /\ Len(calls[1].paths) = 2
  /\ CanRead(disk_before, calls[1].paths[1])
  /\ ~CanRead(disk_before, calls[1].paths[2])
  /\ calls[1].err = E_ABORT
  /\ calls[1].failed_path = calls[1].paths[2]

(***************************************************************************)
(* C2.  No partial success.                                                *)
(***************************************************************************)
\* C2 as stated: a merge into a registered code either completes or leaves
\* the language file exactly as it was, whatever it fails with.
C2_NoPartialSuccess ==
  (MergeEnded /\ Registered(lang_index, calls[1].lang))
  => \/ calls[1].err = OK
     \/ disk[TargetOf(calls[1].lang)] = disk_before[TargetOf(calls[1].lang)]

\* What does hold: a merge that fails before writelines() has begun changes
\* nothing on disk.
C2_UnchangedUnlessWriteBegan ==
  (MergeEnded /\ calls[1].err # OK
     /\ \A i \in 1..Len(calls[1].io) : calls[1].io[i].op # "write")
  => disk = disk_before

(***************************************************************************)
(* C3.  Unknown-language rejection.                                        *)
(***************************************************************************)
\* The invocation was one operation on a language code: a sort, a merge or a
\* direct call of a payload method, with the index loaded.
OperationEnded ==
  /\ pc = "exited"
  /\ argv.command \in {"sort", "merge", "get_path", "read_language_file",
                       "write_to_language_file"}
  /\ enter.err = OK

\* C3: every operation (get_path, read_language_file, write_to_language_file,
\* sort, merge with any list of paths) on a code that is no key of the index
\* fails with the unknown-language error, and opens, reads and writes no
\* language file and no extra file.
C3_UnknownLanguageRejected ==
  (OperationEnded /\ ~Registered(lang_index, argv.lang))
  => /\ result = E_UNRECOGNIZED
     /\ Len(calls) = 1
     /\ calls[1].lang = argv.lang
     /\ calls[1].err = E_UNRECOGNIZED
     /\ calls[1].io = <<>>
     /\ disk = disk_before

\* A merge of two paths into an unknown code has been rejected.
C3_Witness ==
  /\ OperationEnded
  /\ argv.command = "merge"
  /\ Len(argv.rest) = 2
  /\ ~Registered(lang_index, argv.lang)
  /\ result = E_UNRECOGNIZED

(***************************************************************************)
(* C4.  Loading the index is all or nothing.                               *)
(***************************************************************************)
\* An invocation that opens the index has begun.
IndexOpened == runs > 0 /\ argv.command # ""

\* An index that must be rejected: not readable, not a dictionary, or with an
\* entry whose value is no string or whose <stem>.txt does not exist.
Rejectable(doc, d) ==
  \/ doc.kind # "dict"
  \/ \E i \in 1..Len(doc.items) :
       ~doc.items[i].isstr \/ ~exists(d, LanguageFile(doc.items[i].value))

\* C4: when the index is unreadable, no mapping, or has a bad entry, loading
\* fails, no payload exists and no read, sort or write of any language file
\* runs; when loading succeeds every entry was checked, in order, and pointed
\* to an existing file; and loading opens no language file.
C4_IndexAllOrNothing ==
  IndexOpened
  => /\ Rejectable(index_file, disk_before)
          => /\ enter.err \in {E_INDEX_READ, E_INDEX_PARSE, E_INDEX_DICT, E_INDEX_ENTRY}
             /\ result = enter.err
             /\ lang_index = <<>>
             /\ pc = "exited"
             /\ pending = <<>>
             /\ calls = <<>>
             /\ disk = disk_before
     /\ enter.err = OK
          => /\ index_file.kind = "dict"
             /\ lang_index = index_file.items
             /\ enter.io = [i \in 1..Len(index_file.items) |->
                              Access("stat", LanguageFile(index_file.items[i].value), TRUE)]
             /\ \A i \in 1..Len(index_file.items) :
                  /\ index_file.items[i].isstr
                  /\ exists(disk_before, LanguageFile(index_file.items[i].value))
     /\ \A i \in 1..Len(enter.io) : enter.io[i].op = "stat"

\* sort-all was refused because the second entry's file does not exist.
C4_Witness ==
  /\ IndexOpened
  /\ argv.command = "sort-all"
  /\ index_file = IndexDangling
  /\ result = E_INDEX_ENTRY
  /\ Len(enter.io) = 2

(***************************************************************************)
(* C9.  sort-all.                                                          *)
(***************************************************************************)
\* A sort-all invocation with the index loaded, under way or ended.
SortAllBegun == argv.command = "sort-all" /\ enter.err = OK

\* The codes of languages.json in document order, and their files.
IndexCode(i) == index_file.items[i].key
IndexPath(i) == LanguageFile(index_file.items[i].value)

\* `words` in strictly ascending collation order: sorted, nothing twice.
Ascending(lang, words) ==
  \A i \in 1..(Len(words) - 1) :
    KeyLess(getSortKey(lang, words[i]), getSortKey(lang, words[i + 1]))

\* The last call so far that wrote to `path`.
LastWriter(path) ==
  CHOOSE i \in 1..Len(calls) :
    /\ Wrote(calls[i].io, path)
    /\ \A k \in (i + 1)..Len(calls) : ~Wrote(calls[k].io, path)

\* The j-th call rewrote its language file with the sorted, deduplicated
\* normalized lines the file held, and the file is as its last writer left it.
Rewritten(j) ==
  /\ calls[j].err = OK
  /\ Wrote(calls[j].io, IndexPath(j))
  /\ Ascending(calls[j].lang, calls[j].words)
  /\ Range(calls[j].words) = Normalized(readlines(calls[j].before))
  /\ calls[j].after = writelines(calls[j].words)
  /\ disk[IndexPath(j)] = calls[LastWriter(IndexPath(j))].after

\* No call of this invocation wrote to `path`, and it is as it was.
Untouched(path) ==
  /\ disk[path] = disk_before[path]
  /\ \A j \in 1..Len(calls) : ~Wrote(calls[j].io, path)

\* What C9 says of the order of the calls: one merge_language_files call per
\* code, in index order, with no extra files, against the one mapping loaded
\* at the start; a failing call is the last one made.
OncePerCodeInOrder ==
  /\ lang_index = index_file.items
  /\ Len(calls) + Len(pending) = Len(index_file.items)
  /\ \A i \in 1..Len(calls) : /\ calls[i].op = "merge"
                              /\ calls[i].lang = IndexCode(i)
                              /\ calls[i].paths = <<>>
  /\ \A i \in 1..Len(pending) : pending[i] = Call("merge", IndexCode(Len(calls) + i), <<>>)
  /\ \A i \in 1..(Len(calls) - 1) : calls[i].err = OK
  /\ pc = "running" => (pending # <<>> /\ \A i \in 1..Len(calls) : calls[i].err = OK)
  /\ pc = "exited" => IF result = OK
                        THEN pending = <<>> /\ \A i \in 1..Len(calls) : calls[i].err = OK
                        ELSE calls # <<>> /\ calls[Len(calls)].err = result

MergeDone == MergeEnded /\ calls[1].err = OK

\* The word a line carries: the line without its line feed.
Word(line) ==
  IF line # <<>> /\ line[Len(line)] = NL THEN SubSeq(line, 1, Len(line) - 1) ELSE line

\* The lines a merge call was given: those of its language file and of its
\* extra files, as they were when the invocation began.
InputLines(c) ==
  Range(readlines(disk_before[TargetOf(c.lang)]))
    \cup UNION {Range(readlines(disk_before[c.paths[i]])) : i \in 1..Len(c.paths)}

\* The file a merge call left, as lines.
OutputLines(c) == readlines(disk[TargetOf(c.lang)])

NotJoiner(c) == c # ZWNJ
\* A word with its non-joiners taken out.
WithoutJoiners(word) == SelectSeq(word, NotJoiner)

\* Two lines whose words differ only by non-joiners.
JoinerPair(r1, r2) ==
  /\ Word(r1) # Word(r2)
  /\ WithoutJoiners(Word(r1)) = WithoutJoiners(Word(r2))

ExactlyTheInputWords(c) ==
  LET out == OutputLines(c) IN
  /\ {Word(out[i]) : i \in 1..Len(out)} = {NFC(Word(r)) : r \in InputLines(c)}
  /\ \A i, j \in 1..Len(out) : i # j => Word(out[i]) # Word(out[j])
  /\ Ascending(c.lang, [i \in 1..Len(out) |-> Word(out[i])])

\* C5: after every successful merge or sort the language file contains
\* exactly the distinct NFC-normalized words of the prior file and of all
\* extra files, each exactly once, in collation order.
C5_ExactlyTheInputWords == MergeDone => ExactlyTheInputWords(calls[1])

\* A text whose every line is ended by a line feed.
AllLinesEnded(text) == text = <<>> \/ text[Len(text)] = NL

\* What does hold: the same, when every input file ends its last line.
C5_WhenEveryLineIsEnded ==
  (MergeDone /\ AllLinesEnded(disk_before[TargetOf(calls[1].lang)])
     /\ \A i \in 1..Len(calls[1].paths) : AllLinesEnded(disk_before[calls[1].paths[i]]))
  => ExactlyTheInputWords(calls[1])

(***************************************************************************)
(* C10.  One word per line.                                                *)
(***************************************************************************)
\* C10: every file written by merge or sort is one word per line and
\* newline-terminated, whatever the inputs: as many lines as the working set
\* has entries, and one entry for a word that came both with and without its
\* line feed.
C10_OneWordPerLine ==
  MergeDone
  => LET c == calls[1]
         out == OutputLines(c)
     IN /\ \A i \in 1..Len(out) : out[i][Len(out[i])] = NL
        /\ Len(out) = Cardinality(c.bag)
        /\ \A w1, w2 \in c.bag : Word(w1) = Word(w2) => w1 = w2

(***************************************************************************)
(* C7.  Sorting again.                                                     *)
(***************************************************************************)
\* The same sort command has just succeeded twice in a row.
SortedTwice ==
  /\ pc = "exited"
  /\ argv.command = "sort"
  /\ result = OK
  /\ prev.argv = argv
  /\ prev.result = OK

\* C7: a sort of a file that an earlier sort of the same code produced writes
\* byte-identical content: sort twice in a row leaves what sort once left.
C7_SortIsIdempotent ==
  SortedTwice => disk[TargetOf(argv.lang)] = disk_before[TargetOf(argv.lang)]

\* What does hold: the same, when the file first sorted ended its last line.
C7_WhenEveryLineIsEnded ==
  (SortedTwice /\ AllLinesEnded(prev.disk_before[TargetOf(argv.lang)]))
  => disk[TargetOf(argv.lang)] = disk_before[TargetOf(argv.lang)]

(***************************************************************************)
(* C8.  Order of consumption.                                              *)
(***************************************************************************)
\* The file one successful merge_language_files call leaves.
MergeOutput(lang, paths, d) ==
  merge_language_files(lang_index, lang, paths,
                       Len(MergeInputs(lang_index, lang, paths, d).words), d).disk[TargetOf(lang)]

\* Within one invocation the order of the paths and their repetition do not
\* matter: any list of the same paths gives the same file.
C8_WithinOneInvocation ==
  (MergeDone /\ argv.command = "merge")
  => \A r \in Rests :
       Range(r) = Range(argv.rest)
       => MergeOutput(argv.lang, r, disk_before) = disk[TargetOf(argv.lang)]

\* Two successful merges in a row, file by file, leave what one merge of all
\* the files would have left.
C8_OneAtATime ==
  (MergeDone /\ argv.command = "merge" /\ prev.argv.command = "merge"
     /\ prev.argv.lang = argv.lang /\ prev.result = OK)
  => MergeOutput(argv.lang, prev.argv.rest \o argv.rest, prev.disk_before)
       = disk[TargetOf(argv.lang)]

\* C8: the result of a successful merge does not depend on the order in
\* which the inputs are consumed: permuted, listed twice, or merged one at a
\* time in successive invocations, the extra files give the same file.
C8_OrderOfConsumption == C8_WithinOneInvocation /\ C8_OneAtATime

\* What does hold: one at a time gives the same file as all at once when
\* every input file ends its last line.
C8_WhenEveryLineIsEnded ==
  (/\ \A path \in DOMAIN prev.disk_before : AllLinesEnded(prev.disk_before[path]))
  => C8_OneAtATime

====
